---------------------------- MODULE Spec2Model ----------------------------
(***************************************************************************)
(* A model of optimize-images.py: the single-image transform               *)
(* (optimize_image), the directory batch driver (optimize_directory) and   *)
(* the command line front end (main).                                      *)
(*                                                                         *)
(* Strings (argument tokens, file names, paths) are sequences of           *)
(* one-character strings, so that int(), str.lower(), Path.suffix and      *)
(* Path.stem are computed the way Python computes them.  Python floats are *)
(* IEEE-754 doubles, computed exactly on their 53-bit mantissa.            *)
(***************************************************************************)
EXTENDS Integers, Sequences, FiniteSets, TLC

(***************************************************************************)
(* Bounds of the model.                                                    *)
(***************************************************************************)
\* image widths and heights range over 1..MaxDim (plus the samples below)
MaxDim == 3
\* at most MaxArgs tokens follow the positional argument on the command line
MaxArgs == 3
\* at most MaxEntries entries in the input directory of a batch run
MaxEntries == 3

(***************************************************************************)
(* Characters and strings.                                                 *)
(***************************************************************************)
\* Python's None, and a value that is there: an optional value is a sequence
\* of no or one element (an optional string is the string, None when empty)
None == <<>>

Some(v) == <<v>>

Digits == <<"0", "1", "2", "3", "4", "5", "6", "7", "8", "9">>

UpperCase == <<"A", "B", "C", "D", "E", "F", "G", "H", "I", "J", "K", "L", "M",
               "N", "O", "P", "Q", "R", "S", "T", "U", "V", "W", "X", "Y", "Z">>

LowerCase == <<"a", "b", "c", "d", "e", "f", "g", "h", "i", "j", "k", "l", "m",
               "n", "o", "p", "q", "r", "s", "t", "u", "v", "w", "x", "y", "z">>

Range(s) == {s[k] : k \in DOMAIN s}

IsDigit(c) == c \in Range(Digits)

DigitVal(c) == (CHOOSE k \in DOMAIN Digits : Digits[k] = c) - 1

\* str.lower() on one character, and on a string
LowerChar(c) ==
    IF c \in Range(UpperCase)
    THEN LowerCase[CHOOSE k \in DOMAIN UpperCase : UpperCase[k] = c]
    ELSE c

Lower(s) == [k \in DOMAIN s |-> LowerChar(s[k])]

\* str.strip(): leading and trailing blanks removed
RECURSIVE LStrip(_)
LStrip(s) == IF s # <<>> /\ Head(s) = " " THEN LStrip(Tail(s)) ELSE s

RECURSIVE RStrip(_)
RStrip(s) ==
    IF s # <<>> /\ s[Len(s)] = " " THEN RStrip(SubSeq(s, 1, Len(s) - 1)) ELSE s

Strip(s) == RStrip(LStrip(s))

\* the value of a string of decimal digits
RECURSIVE DigitsVal(_)
DigitsVal(s) ==
    IF s = <<>> THEN 0
    ELSE 10 * DigitsVal(SubSeq(s, 1, Len(s) - 1)) + DigitVal(s[Len(s)])

\* int(s): an optional sign and at least one decimal digit, blanks around
\* it ignored; anything else raises ValueError (ok = FALSE)
PyInt(str) ==
    LET s    == Strip(str)
        sgn  == s # <<>> /\ Head(s) \in {"-", "+"}
        body == IF sgn THEN Tail(s) ELSE s
    IN  IF body # <<>> /\ \A k \in DOMAIN body : IsDigit(body[k])
        THEN [ok |-> TRUE,
              val |-> IF sgn /\ Head(s) = "-" THEN 0 - DigitsVal(body)
                      ELSE DigitsVal(body)]
        ELSE [ok |-> FALSE, val |-> 0]

\* the decimal numeral of n >= 0
RECURSIVE ToStr(_)
ToStr(n) ==
    IF n < 10 THEN <<Digits[n + 1]>>
    ELSE ToStr(n \div 10) \o <<Digits[(n % 10) + 1]>>

(***************************************************************************)
(* Paths (pathlib.PurePosixPath).                                          *)
(***************************************************************************)
Dot == <<".">>

\* str.rfind(c): the last position of c in s, 0 when there is none
RFind(s, c) ==
    LET hits == {k \in DOMAIN s : s[k] = c}
    IN  IF hits = {} THEN 0 ELSE CHOOSE k \in hits : \A j \in hits : j <= k

\* Path.name, Path.parent and the / operator
PathName(p) == SubSeq(p, RFind(p, "/") + 1, Len(p))

PathParent(p) ==
    IF RFind(p, "/") = 0 THEN Dot ELSE SubSeq(p, 1, RFind(p, "/") - 1)

PathJoin(d, n) == IF d = Dot THEN n ELSE d \o <<"/">> \o n

\* Path.suffix and Path.stem: the name is split at its last dot, unless
\* that dot is its first or its last character
PathSuffix(p) ==
    LET n == PathName(p)
        k == RFind(n, ".")
    IN  IF 1 < k /\ k < Len(n) THEN SubSeq(n, k, Len(n)) ELSE <<>>

PathStem(p) ==
    LET n == PathName(p)
        k == RFind(n, ".")
    IN  IF 1 < k /\ k < Len(n) THEN SubSeq(n, 1, k - 1) ELSE n

(***************************************************************************)
(* Python float arithmetic (IEEE-754 binary64, round to nearest even).     *)
(*                                                                         *)
(* A positive float is [hi, mid, lo, e]: its 53-bit mantissa               *)
(* M = hi * 2^36 + mid * 2^18 + lo, 2^52 <= M < 2^53, cut in limbs of 17,  *)
(* 18 and 18 bits, and its value M * 2^e.  The limbs keep every            *)
(* intermediate product below 2^31 for operands below 2^13.                *)
(***************************************************************************)
\* the precision of a Python float, in bits
MantBits == 53

Limb == 2^18

TopLimb == 2^(MantBits - 36)

Mantissa(hi, mid, lo, e) == [hi |-> hi, mid |-> mid, lo |-> lo, e |-> e]

\* the mantissa M plus one, renormalised when it reaches 2^53
FloatNext(f) ==
    IF f.lo + 1 < Limb THEN [f EXCEPT !.lo = f.lo + 1]
    ELSE IF f.mid + 1 < Limb THEN [f EXCEPT !.lo = 0, !.mid = f.mid + 1]
    ELSE IF f.hi + 1 < TopLimb
         THEN [f EXCEPT !.lo = 0, !.mid = 0, !.hi = f.hi + 1]
    ELSE Mantissa(TopLimb \div 2, 0, 0, f.e + 1)

\* Round to nearest, ties to even: f is the exact value truncated, and the
\* part cut off is num / den of one unit in the last place (0 <= num < den)
FloatRound(f, num, den) ==
    IF 2 * num > den \/ (2 * num = den /\ f.lo % 2 = 1) THEN FloatNext(f)
    ELSE f

\* the k with b * 2^k <= a < b * 2^(k+1), for a, b >= 1
RECURSIVE FloorLog2(_, _)
FloorLog2(a, b) ==
    IF a >= 2 * b THEN FloorLog2(a, 2 * b) + 1
    ELSE IF a < b THEN FloorLog2(2 * a, b) - 1
    ELSE 0

\* a / b for ints 1 <= a, b < 2^13 (true division: the correctly rounded
\* quotient), by long division, one limb at a time
FloatDiv(a, b) ==
    LET k   == FloorLog2(a, b)
        num == IF k < 0 THEN a * 2^(0 - k) ELSE a
        den == IF k > 0 THEN b * 2^k ELSE b
        n1  == num * (TopLimb \div 2)
        n2  == (n1 % den) * Limb
        n3  == (n2 % den) * Limb
    IN  FloatRound(Mantissa(n1 \div den, n2 \div den, n3 \div den,
                            k - (MantBits - 1)),
                   n3 % den, den)

\* h * f for an int 1 <= h < 2^13 and a float f > 0: h converts to a float
\* exactly, and the exact product is rounded once
FloatMulInt(h, f) ==
    LET t3 == h * f.lo
        t2 == h * f.mid + (t3 \div Limb)
        t1 == h * f.hi + (t2 \div Limb)
        l3 == t3 % Limb
        l2 == t2 % Limb
        \* the product has s bits more than a mantissa
        s  == FloorLog2(t1, TopLimb \div 2)
        p  == 2^s
    IN  FloatRound(Mantissa(t1 \div p,
                            (l2 \div p) + (t1 % p) * (Limb \div p),
                            (l3 \div p) + (l2 % p) * (Limb \div p),
                            f.e + s),
                   l3 % p, p)

\* int(f) for a float f > 0: truncation toward zero (the values of this
\* model stay far below 2^31)
FloatToInt(f) ==
    IF f.e >= 0 THEN (f.hi * Limb * Limb + f.mid * Limb + f.lo) * 2^f.e
    ELSE IF 0 - f.e >= MantBits THEN 0
    ELSE IF 0 - f.e >= 36 THEN f.hi \div 2^(0 - f.e - 36)
    ELSE IF 0 - f.e >= 18
         THEN f.hi * 2^(36 + f.e) + (f.mid \div 2^(0 - f.e - 18))
    ELSE f.hi * 2^(36 + f.e) + f.mid * 2^(18 + f.e) + (f.lo \div 2^(0 - f.e))

(***************************************************************************)
(* Images.  An image is its colour mode, its size and one representative   *)
(* pixel (the image is uniform, so resampling leaves that pixel's value    *)
(* alone); `origin` names the file the pixels first came from.             *)
(*   RGB: px = <<r, g, b>>      RGBA: px = <<r, g, b, a>>                  *)
(*   LA:  px = <<l, a>>         L:    px = <<l>>                           *)
(*   P:   px = <<i>>, an index into `palette` (colours) and `trns` (the    *)
(*        alpha of each palette entry)                                     *)
(***************************************************************************)
White == <<255, 255, 255>>

\* Pillow's BLEND8: in1 * (255 - mask) + in2 * mask, divided by 255
Blend8(mask, in1, in2) ==
    LET tmp == in1 * (255 - mask) + in2 * mask + 128
    IN  ((tmp \div 256) + tmp) \div 256

\* img.convert('RGBA') of a palette image: the palette entry and its alpha
ConvertPToRGBA(img) ==
    [img EXCEPT !.mode = "RGBA",
                !.px = img.palette[img.px[1]] \o <<img.trns[img.px[1]]>>]

\* img.convert('RGB') of a mode without alpha or palette
ConvertToRGB(img) ==
    [img EXCEPT !.mode = "RGB",
                !.px = IF img.mode = "L" THEN <<img.px[1], img.px[1], img.px[1]>>
                       ELSE SubSeq(img.px, 1, 3)]

\* img.split()[-1]: the last band of the pixel
LastBand(img) == img.px[Len(img.px)]

NoImage == [mode |-> "none"]

\* The three colour bytes of a pixel as Pillow stores it: LA is stored as
\* (L, L, L, A), RGBA as (R, G, B, A).
StoredRGB(img) ==
    IF img.mode = "LA" THEN <<img.px[1], img.px[1], img.px[1]>>
    ELSE SubSeq(img.px, 1, 3)

\* background.paste(img, mask=mask) on an RGB background: without a mask
\* the colour bytes are copied, with one each byte is blended
Paste(background, img, mask) ==
    LET src == StoredRGB(img)
    IN  [background EXCEPT
            !.px = IF mask = None THEN src
                   ELSE [c \in 1..3 |-> Blend8(mask[1], background.px[c], src[c])]]

\* Image.new('RGB', img.size, (255, 255, 255))
NewRGB(img, colour) ==
    [mode |-> "RGB", w |-> img.w, h |-> img.h, px |-> colour,
     palette |-> <<>>, trns |-> <<>>, origin |-> img.origin]

\* lines 44-52: the colour normalisation of optimize_image
Normalise(img) ==
    IF img.mode \in {"RGBA", "LA", "P"}
    THEN LET background == NewRGB(img, White)
             img1 == IF img.mode = "P" THEN ConvertPToRGBA(img) ELSE img
         IN  Paste(background, img1,
                   IF img1.mode = "RGBA" THEN Some(LastBand(img1)) ELSE None)
    ELSE IF img.mode # "RGB" THEN ConvertToRGB(img)
    ELSE img

\* lines 60-61: ratio = max_width / original_width;
\* new_height = int(original_height * ratio)
\* (a zero ratio gives 0; a negative one has the magnitude of its opposite,
\* rounding and truncation being symmetric)
NewHeight(original_width, original_height, max_width) ==
    IF max_width = 0 THEN 0
    ELSE IF max_width < 0
    THEN 0 - FloatToInt(FloatMulInt(original_height,
                                    FloatDiv(0 - max_width, original_width)))
    ELSE FloatToInt(FloatMulInt(original_height,
                                FloatDiv(max_width, original_width)))

\* TargetSize with a fault: the width test is lost, every image is resized
TargetSizeAlways(original_width, original_height, max_width) ==
    [w |-> max_width,
     h |-> NewHeight(original_width, original_height, max_width),
     resized |-> TRUE]

\* lines 58-65: the size handed to img.resize, or the size left alone
TargetSize(original_width, original_height, max_width) ==
    IF original_width > max_width
    THEN [w |-> max_width,
          h |-> NewHeight(original_width, original_height, max_width),
          resized |-> TRUE]
    ELSE [w |-> original_width, h |-> original_height, resized |-> FALSE]

\* Image.resize raises ValueError ("height and width must be > 0") for an
\* empty target size
ResizeRaises(size) == size.resized /\ (size.w < 1 \/ size.h < 1)

(***************************************************************************)
(* The file system: a function from the paths that exist to their entry,   *)
(* a directory [kind, writable] or a regular file [kind, data], whose data *)
(* is an image or bytes no decoder recognises.  A directory that is not    *)
(* writable refuses every write below it (a read-only mount): no entry is  *)
(* made in it and no file in it is written.                                *)
(***************************************************************************)
Junk == [mode |-> "junk"]

DirEntry(writable) == [kind |-> "dir", writable |-> writable]

FileEntry(data) == [kind |-> "file", data |-> data]

Exists(fs, p) == p \in DOMAIN fs

IsFile(fs, p) == Exists(fs, p) /\ fs[p].kind = "file"

IsDir(fs, p) == Exists(fs, p) /\ fs[p].kind = "dir"

\* Path.iterdir(): the entries directly under d
IterDir(fs, d) == {p \in DOMAIN fs : p # Dot /\ p # d /\ PathParent(p) = d}

Put(fs, p, entry) ==
    [q \in DOMAIN fs \cup {p} |-> IF q = p THEN entry ELSE fs[q]]

\* os.mkdir(d) where d does not exist: its parent must be a directory one
\* may write to
OsMkdir(fs, d) ==
    IF IsDir(fs, PathParent(d)) /\ fs[PathParent(d)].writable
    THEN [ok |-> TRUE, fs |-> Put(fs, d, DirEntry(TRUE))]
    ELSE [ok |-> FALSE, fs |-> fs]

\* Path.mkdir(parents=True, exist_ok=True): an existing directory is fine,
\* any other existing entry raises FileExistsError, missing parents are
\* created first
RECURSIVE Mkdir(_, _)
Mkdir(fs, d) ==
    IF Exists(fs, d) THEN [ok |-> IsDir(fs, d), fs |-> fs]
    ELSE IF Exists(fs, PathParent(d)) THEN OsMkdir(fs, d)
    ELSE LET up == Mkdir(fs, PathParent(d))
         IN  IF up.ok THEN OsMkdir(up.fs, d) ELSE up

\* open(output_path, "w+b") succeeds: the directory can be written to and
\* the path is not a directory
CanWrite(fs, p) ==
    /\ IsDir(fs, PathParent(p)) /\ fs[PathParent(p)].writable
    /\ ~IsDir(fs, p)

(***************************************************************************)
(* optimize_image (lines 13-89).  The result record says what the call     *)
(* returned (ret), whether an exception left the function (raised), why it *)
(* failed, the image as decoded (src), the image handed to img.save (enc), *)
(* the output path written (out), the messages printed and the file        *)
(* system afterwards.                                                      *)
(***************************************************************************)
WebpSuffix == <<".", "w", "e", "b", "p">>

Outcome(fs, ret, raised, fail, src, enc, out, msgs) ==
    [fs |-> fs, ret |-> ret, raised |-> raised, fail |-> fail,
     src |-> src, enc |-> enc, out |-> out, msgs |-> msgs]

\* lines 29-89: the input path exists
OptimizeExisting(fs, input_path, output_dir, max_width, quality) ==
    LET mk  == IF output_dir # None THEN Mkdir(fs, output_dir)
               ELSE [ok |-> TRUE, fs |-> fs]
        dir == IF output_dir # None THEN output_dir ELSE PathParent(input_path)
        output_path == PathJoin(dir, PathStem(input_path) \o WebpSuffix)
    IN
    IF ~mk.ok
    THEN \* mkdir is outside the try block: its OSError leaves the function
         Outcome(mk.fs, FALSE, TRUE, "mkdir", NoImage, NoImage, None, {})
    ELSE IF ~IsFile(mk.fs, input_path) \/ mk.fs[input_path].data = Junk
    THEN \* Image.open raises: caught at line 86
         Outcome(mk.fs, FALSE, FALSE, "decode", NoImage, NoImage, None,
                 {"processing", "error_processing"})
    ELSE
    LET src  == mk.fs[input_path].data
        img  == Normalise(src)
        size == TargetSize(img.w, img.h, max_width)
        enc  == [img EXCEPT !.w = size.w, !.h = size.h]
    IN
    IF ResizeRaises(size)
    THEN Outcome(mk.fs, FALSE, FALSE, "resize", src, NoImage, None,
                 {"processing", "error_processing"})
    ELSE IF ~CanWrite(mk.fs, output_path)
    THEN Outcome(mk.fs, FALSE, FALSE, "write", src, enc, None,
                 {"processing", "size", "error_processing"})
    ELSE Outcome(Put(mk.fs, output_path, FileEntry(enc)), TRUE, FALSE, "none",
                 src, enc, output_path, {"processing", "size", "saved"})

\* OptimizeImage with a fault: the output directory is made before the
\* input is looked for
OptimizeImageMkdirFirst(fs, input_path, output_dir, max_width, quality) ==
    IF ~Exists(fs, input_path)
    THEN Outcome(IF output_dir # None THEN Mkdir(fs, output_dir).fs ELSE fs,
                 FALSE, FALSE, "not_found", NoImage, NoImage, None,
                 {"file_not_found"})
    ELSE OptimizeExisting(fs, input_path, output_dir, max_width, quality)

\* lines 23-27, then the rest
OptimizeImage(fs, input_path, output_dir, max_width, quality) ==
    IF ~Exists(fs, input_path)
    THEN Outcome(fs, FALSE, FALSE, "not_found", NoImage, NoImage, None,
                 {"file_not_found"})
    ELSE OptimizeExisting(fs, input_path, output_dir, max_width, quality)

(***************************************************************************)
(* optimize_directory (lines 92-134): the candidates of a directory.       *)
(***************************************************************************)
SupportedFormats ==
    { <<".", "p", "n", "g">>, <<".", "j", "p", "g">>, <<".", "j", "p", "e", "g">>,
      <<".", "g", "i", "f">>, <<".", "b", "m", "p">>, <<".", "t", "i", "f", "f">>,
      <<".", "w", "e", "b", "p">> }

IsCandidate(fs, f) == IsFile(fs, f) /\ Lower(PathSuffix(f)) \in SupportedFormats

Candidates(fs, input_dir) == {f \in IterDir(fs, input_dir) : IsCandidate(fs, f)}

\* the orders in which iterdir() may deliver a set of paths
Orders(S) ==
    {o \in [1..Cardinality(S) -> S] : \A j, k \in DOMAIN o : j # k => o[j] # o[k]}

(***************************************************************************)
(* The program state.                                                      *)
(***************************************************************************)
VARIABLES
    argv,           \* sys.argv
    fs,             \* the file system
    pc,             \* where main is
    i,              \* main's index into sys.argv
    input_path,     \* main's locals
    output_dir,
    max_width,
    quality,
    images,         \* optimize_directory's list of candidates
    idx,            \* how many of them the loop has been through
    success_count,
    exit_status,    \* the status the process ended with, None while it runs
    msgs,           \* the kinds of message printed so far
    typed,          \* what stdin gave the prompt, None when it was not asked
    calls,          \* history: one record per optimize_image call
    reported,       \* history: the <<successes, total>> of the last line
    fs0,            \* history: the file system main started with
    interfered      \* history: another process has removed a file

vars == <<argv, fs, pc, i, input_path, output_dir, max_width, quality, images,
          idx, success_count, exit_status, msgs, typed, calls, reported, fs0,
          interfered>>

(***************************************************************************)
(* The inputs: command lines, directory contents, images.                  *)
(***************************************************************************)
sProg    == <<"x">>
sOutput  == <<"-", "-", "o", "u", "t", "p", "u", "t">>
sWidth   == <<"-", "-", "w", "i", "d", "t", "h">>
sQuality == <<"-", "-", "q", "u", "a", "l", "i", "t", "y">>
sDir     == <<"d">>
sOut     == <<"o">>
sNested  == <<"o", "/", "s">>
sFile    == <<"p", ".", "p", "n", "g">>
sMissing == <<"n">>

InDir(name) == PathJoin(sDir, name)

Image(mode, w, h, px, origin) ==
    [mode |-> mode, w |-> w, h |-> h, px |-> px,
     palette |-> IF mode = "P" THEN <<<<10, 20, 30>>, <<0, 0, 0>>>> ELSE <<>>,
     trns |-> IF mode = "P" THEN <<255, 0>> ELSE <<>>,
     origin |-> origin]

\* the tokens a command line is made of
Tokens ==
    {sOutput, sWidth, sQuality, sOut, <<"0">>, <<"2">>, <<"-", "1">>,
     <<"1", "0", "1">>}

RECURSIVE SeqsUpTo(_, _)
SeqsUpTo(S, n) ==
    IF n = 0 THEN {<<>>}
    ELSE LET shorter == SeqsUpTo(S, n - 1)
         IN  shorter \cup {Append(q, t) : q \in {r \in shorter : Len(r) = n - 1}, t \in S}

EndOfFile == <<"EOF">>

\* what stdin may give the prompt: a line, or end of file
StdinLines ==
    {<<>>, <<"2">>, <<" ", "2", " ">>, <<"0">>, <<"-", "1">>, <<"o">>, EndOfFile}

\* representative pixels of each colour mode
Pixels ==
    {<<"RGB", <<10, 20, 30>>>>, <<"L", <<77>>>>}
    \cup {<<"RGBA", <<10, 20, 30, a>>>> : a \in {0, 128, 255}}
    \cup {<<"LA", <<l, a>>>> : l \in {0, 200}, a \in {0, 128, 255}}
    \cup {<<"P", <<k>>>> : k \in {1, 2}}

WidthSamples == (1..MaxDim) \cup {11, 348}

HeightSamples == (1..MaxDim) \cup {55, 145}

MaxWidthSamples == (1..MaxDim) \cup {300}

BaseFs == (Dot :> DirEntry(TRUE))

\* one image file, every size and colour mode, one explicit --width
InitImage ==
    \E w \in WidthSamples, h \in HeightSamples, mw \in MaxWidthSamples,
       p \in Pixels :
        /\ argv = <<sProg, sFile, sWidth, ToStr(mw)>>
        /\ fs = BaseFs @@ (sFile :> FileEntry(Image(p[1], w, h, p[2], sFile)))

\* any command line, over a small fixed tree
InitCLI ==
    /\ \E pos \in {sDir, sFile, sMissing}, opts \in SeqsUpTo(Tokens, MaxArgs) :
          argv \in {<<sProg>>, <<sProg, pos>> \o opts}
    /\ fs = BaseFs
            @@ (sFile :> FileEntry(Image("RGB", 3, 2, <<10, 20, 30>>, sFile)))
            @@ (sDir :> DirEntry(TRUE))
            @@ (InDir(<<"a", ".", "p", "n", "g">>) :>
                    FileEntry(Image("RGBA", 3, 3, <<10, 20, 30, 128>>,
                                    InDir(<<"a", ".", "p", "n", "g">>))))
            @@ (InDir(<<"b", ".", "g", "i", "f">>) :> FileEntry(Junk))

\* the entries a batch directory may hold, and what each may be
EntryPool ==
    LET n1 == InDir(<<"a", ".", "p", "n", "g">>)
        n2 == InDir(<<"a", ".", "J", "P", "G">>)
        n3 == InDir(<<"a", ".", "w", "e", "b", "p">>)
        n4 == InDir(<<"b", ".", "t", "x", "t">>)
        n5 == InDir(<<"c", ".", "g", "i", "f">>)
        n6 == InDir(<<".", "p", "n", "g">>)
    IN  { <<n1, FileEntry(Image("RGB", 3, 3, <<10, 20, 30>>, n1))>>,
          <<n1, FileEntry(Junk)>>,
          <<n2, FileEntry(Image("L", 1, 2, <<77>>, n2))>>,
          <<n2, FileEntry(Image("RGB", 3, 1, <<1, 2, 3>>, n2))>>,
          <<n3, FileEntry(Image("RGB", 2, 1, <<9, 9, 9>>, n3))>>,
          <<n4, FileEntry(Image("RGB", 1, 1, <<5, 5, 5>>, n4))>>,
          <<n5, DirEntry(TRUE)>>,
          <<n5, FileEntry(Image("P", 2, 2, <<1>>, n5))>>,
          <<n6, FileEntry(Image("RGB", 1, 1, <<6, 6, 6>>, n6))>> }

\* the directory contents: at most MaxEntries entries, no name twice
Listings ==
    {c \in SUBSET EntryPool :
        /\ Cardinality(c) <= MaxEntries
        /\ \A e1, e2 \in c : e1[1] = e2[1] => e1 = e2}

FsOf(listing) ==
    [q \in {e[1] : e \in listing} |-> (CHOOSE e \in listing : e[1] = q)[2]]

\* how a batch is run: is the input directory writable, and the --output
\* given (none; a directory to make; one to make with its parent; the path
\* of a regular file)
BatchSetups ==
    { <<TRUE, <<>>>>, <<FALSE, <<>>>>, <<TRUE, <<sOutput, sOut>>>>,
      <<FALSE, <<sOutput, sNested>>>>, <<TRUE, <<sOutput, sFile>>>> }

\* a batch run over any such directory
InitBatch ==
    \E listing \in Listings, setup \in BatchSetups :
        /\ argv = <<sProg, sDir, sWidth, <<"2">>>> \o setup[2]
        /\ fs = BaseFs @@ (sFile :> FileEntry(Junk)) @@ (sDir :> DirEntry(setup[1]))
                @@ FsOf(listing)

Init ==
    /\ InitImage \/ InitCLI \/ InitBatch
    /\ pc = "start"
    /\ i = 0
    /\ input_path = None
    /\ output_dir = None
    /\ max_width = None
    /\ quality = 0
    /\ images = <<>>
    /\ idx = 0
    /\ success_count = 0
    /\ exit_status = None
    /\ msgs = {}
    /\ typed = None
    /\ calls = <<>>
    /\ reported = None
    /\ fs0 = fs
    /\ interfered = FALSE

(***************************************************************************)
(* main (lines 137-217).  Python indexes sys.argv from 0: argument j is    *)
(* argv[j + 1] here.                                                       *)
(***************************************************************************)
DefaultWidth == 300

DefaultQuality == 85

Arg(j) == argv[j + 1]

Exit(status, said) ==
    /\ pc' = "exit"
    /\ exit_status' = Some(status)
    /\ msgs' = msgs \cup said

\* the record the history keeps of one optimize_image call
CallRecord(path, dir, r, before) ==
    [path |-> path, output_dir |-> dir, max_width |-> max_width[1],
     quality |-> quality, ret |-> r.ret, raised |-> r.raised, fail |-> r.fail,
     src |-> r.src, enc |-> r.enc, out |-> r.out,
     existed |-> Exists(before, path), changed |-> r.fs # before]

\* lines 145-159: no positional argument
MainUsage ==
    /\ pc = "start"
    /\ Len(argv) < 2
    /\ Exit(1, {"usage"})
    /\ UNCHANGED <<argv, fs, i, input_path, output_dir, max_width, quality,
                   images, idx, success_count, typed, calls, reported, fs0,
                   interfered>>

\* lines 161-168
MainStart ==
    /\ pc = "start"
    /\ Len(argv) >= 2
    /\ input_path' = Arg(1)
    /\ output_dir' = None
    /\ max_width' = None
    /\ quality' = DefaultQuality
    /\ i' = 2
    /\ pc' = "parse"
    /\ UNCHANGED <<argv, fs, images, idx, success_count, exit_status, msgs,
                   typed, calls, reported, fs0, interfered>>

\* lines 170-172
ParseOutput ==
    /\ pc = "parse"
    /\ i < Len(argv)
    /\ Arg(i) = sOutput /\ i + 1 < Len(argv)
    /\ output_dir' = Arg(i + 1)
    /\ i' = i + 2
    /\ UNCHANGED <<argv, fs, pc, input_path, max_width, quality, images, idx,
                   success_count, exit_status, msgs, typed, calls, reported,
                   fs0, interfered>>

\* max_width <= 0 after int() succeeded (lines 176-177)
WidthRejected(v) == v <= 0

\* lines 173-181
ParseWidth ==
    /\ pc = "parse"
    /\ i < Len(argv)
    /\ ~(Arg(i) = sOutput /\ i + 1 < Len(argv))
    /\ Arg(i) = sWidth /\ i + 1 < Len(argv)
    /\ LET v == PyInt(Arg(i + 1))
       IN  /\ max_width' = IF v.ok THEN Some(v.val) ELSE max_width
           /\ IF v.ok /\ ~WidthRejected(v.val)
              THEN /\ i' = i + 2
                   /\ UNCHANGED <<pc, exit_status, msgs>>
              ELSE /\ Exit(1, {"invalid_width"})
                   /\ UNCHANGED i
    /\ UNCHANGED <<argv, fs, input_path, output_dir, quality, images, idx,
                   success_count, typed, calls, reported, fs0, interfered>>

\* QualityRejected with a fault: the lower bound is lost
QualityRejectedAbove(v) == v > 100

\* not (0 <= quality <= 100) after int() succeeded (lines 185-186)
QualityRejected(v) == ~(0 <= v /\ v <= 100)

\* lines 182-190
ParseQuality ==
    /\ pc = "parse"
    /\ i < Len(argv)
    /\ ~(Arg(i) = sOutput /\ i + 1 < Len(argv))
    /\ ~(Arg(i) = sWidth /\ i + 1 < Len(argv))
    /\ Arg(i) = sQuality /\ i + 1 < Len(argv)
    /\ LET v == PyInt(Arg(i + 1))
       IN  /\ quality' = IF v.ok THEN v.val ELSE quality
           /\ IF v.ok /\ ~QualityRejected(v.val)
              THEN /\ i' = i + 2
                   /\ UNCHANGED <<pc, exit_status, msgs>>
              ELSE /\ Exit(1, {"invalid_quality"})
                   /\ UNCHANGED i
    /\ UNCHANGED <<argv, fs, input_path, output_dir, max_width, images, idx,
                   success_count, typed, calls, reported, fs0, interfered>>

\* lines 191-193
ParseUnknown ==
    /\ pc = "parse"
    /\ i < Len(argv)
    /\ ~(Arg(i) \in {sOutput, sWidth, sQuality} /\ i + 1 < Len(argv))
    /\ msgs' = msgs \cup {"unknown_argument"}
    /\ i' = i + 1
    /\ UNCHANGED <<argv, fs, pc, input_path, output_dir, max_width, quality,
                   images, idx, success_count, exit_status, typed, calls,
                   reported, fs0, interfered>>

\* line 169: the loop ends
ParseDone ==
    /\ pc = "parse"
    /\ ~(i < Len(argv))
    /\ pc' = "width"
    /\ UNCHANGED <<argv, fs, i, input_path, output_dir, max_width, quality,
                   images, idx, success_count, exit_status, msgs, typed, calls,
                   reported, fs0, interfered>>

\* line 196: --width was given
WidthGiven ==
    /\ pc = "width"
    /\ max_width # None
    /\ pc' = "dispatch"
    /\ UNCHANGED <<argv, fs, i, input_path, output_dir, max_width, quality,
                   images, idx, success_count, exit_status, msgs, typed, calls,
                   reported, fs0, interfered>>

\* the width lines 198-205 settle on for a line typed at the prompt, and
\* whether they call it invalid
PromptWidth(line) ==
    LET user_input == Strip(line)
        v == PyInt(user_input)
    IN  IF user_input = <<>> THEN [width |-> DefaultWidth, invalid |-> FALSE]
        ELSE IF v.ok /\ v.val > 0 THEN [width |-> v.val, invalid |-> FALSE]
        ELSE [width |-> DefaultWidth, invalid |-> TRUE]

\* lines 197-205: stdin is a terminal.  input() raises EOFError at end of
\* file, which the except ValueError does not catch.
PromptTTY ==
    /\ pc = "width"
    /\ max_width = None
    /\ \E line \in StdinLines :
        /\ typed' = Some(line)
        /\ IF line = EndOfFile
           THEN /\ Exit(1, {"traceback"})
                /\ UNCHANGED max_width
           ELSE /\ max_width' = Some(PromptWidth(line).width)
                /\ msgs' = msgs \cup IF PromptWidth(line).invalid
                                     THEN {"invalid_input_using_default"} ELSE {}
                /\ pc' = "dispatch"
                /\ UNCHANGED exit_status
    /\ UNCHANGED <<argv, fs, i, input_path, output_dir, quality, images, idx,
                   success_count, calls, reported, fs0, interfered>>

\* lines 206-208: stdin is not a terminal
PromptNoTTY ==
    /\ pc = "width"
    /\ max_width = None
    /\ max_width' = Some(DefaultWidth)
    /\ msgs' = msgs \cup {"no_width_using_default"}
    /\ pc' = "dispatch"
    /\ UNCHANGED <<argv, fs, i, input_path, output_dir, quality, images, idx,
                   success_count, exit_status, typed, calls, reported, fs0,
                   interfered>>

\* lines 211-212: a single file.  An exception that leaves optimize_image
\* ends the process with a traceback and status 1; otherwise main returns.
RunFile ==
    /\ pc = "dispatch"
    /\ IsFile(fs, input_path)
    /\ LET r == OptimizeImage(fs, input_path, output_dir, max_width[1], quality)
       IN  /\ fs' = r.fs
           /\ calls' = Append(calls, CallRecord(input_path, output_dir, r, fs))
           /\ IF r.raised THEN Exit(1, r.msgs \cup {"traceback"})
              ELSE Exit(0, r.msgs)
    /\ UNCHANGED <<argv, i, input_path, output_dir, max_width, quality, images,
                   idx, success_count, typed, reported, fs0, interfered>>

\* lines 213-214 and 102-119: a directory without candidates.  (main calls
\* optimize_directory on a directory only, so the return of lines 104-106
\* is never taken.)
RunDirectoryEmpty ==
    /\ pc = "dispatch"
    /\ ~IsFile(fs, input_path) /\ IsDir(fs, input_path)
    /\ Exists(fs, input_path)
    /\ Candidates(fs, input_path) = {}
    /\ images' = <<>>
    /\ Exit(0, {"no_images_found"})
    /\ UNCHANGED <<argv, fs, i, input_path, output_dir, max_width, quality, idx,
                   success_count, typed, calls, reported, fs0, interfered>>

\* lines 213-214 and 102-129: the candidates, in the order iterdir() gives
RunDirectory ==
    /\ pc = "dispatch"
    /\ ~IsFile(fs, input_path) /\ IsDir(fs, input_path)
    /\ Exists(fs, input_path)
    /\ Candidates(fs, input_path) # {}
    /\ images' \in Orders(Candidates(fs, input_path))
    /\ success_count' = 0
    /\ idx' = 0
    /\ msgs' = msgs \cup {"found"}
    /\ pc' = "loop"
    /\ UNCHANGED <<argv, fs, i, input_path, output_dir, max_width, quality,
                   exit_status, typed, calls, reported, fs0, interfered>>

\* lines 215-217
RunNeither ==
    /\ pc = "dispatch"
    /\ ~IsFile(fs, input_path) /\ ~IsDir(fs, input_path)
    /\ Exit(1, {"not_a_file_or_directory"})
    /\ UNCHANGED <<argv, fs, i, input_path, output_dir, max_width, quality,
                   images, idx, success_count, typed, calls, reported, fs0,
                   interfered>>

\* lines 130-132: one turn of the loop.  Nothing catches an exception that
\* leaves optimize_image: it ends the process.
LoopStep ==
    /\ pc = "loop"
    /\ idx < Len(images)
    /\ LET img_path == images[idx + 1]
           r == OptimizeImage(fs, img_path, output_dir, max_width[1], quality)
       IN  /\ fs' = r.fs
           /\ calls' = Append(calls, CallRecord(img_path, output_dir, r, fs))
           /\ IF r.raised
              THEN /\ Exit(1, r.msgs \cup {"traceback"})
                   /\ UNCHANGED <<idx, success_count>>
              ELSE /\ msgs' = msgs \cup r.msgs
                   /\ idx' = idx + 1
                   /\ success_count' = IF r.ret THEN success_count + 1
                                       ELSE success_count
                   /\ UNCHANGED <<pc, exit_status>>
    /\ UNCHANGED <<argv, i, input_path, output_dir, max_width, quality, images,
                   typed, reported, fs0, interfered>>

\* line 134, and main returns
Summary ==
    /\ pc = "loop"
    /\ idx = Len(images)
    /\ reported' = <<success_count, Len(images)>>
    /\ Exit(0, {"complete"})
    /\ UNCHANGED <<argv, fs, i, input_path, output_dir, max_width, quality,
                   images, idx, success_count, typed, calls, fs0, interfered>>

\* The environment: another process removes a file the loop has not come
\* to yet (once in a run).
EnvRemove ==
    /\ pc = "loop"
    /\ ~interfered
    /\ \E k \in (idx + 1)..Len(images) :
        /\ Exists(fs, images[k])
        /\ fs' = [q \in DOMAIN fs \ {images[k]} |-> fs[q]]
    /\ interfered' = TRUE
    /\ UNCHANGED <<argv, pc, i, input_path, output_dir, max_width, quality,
                   images, idx, success_count, exit_status, msgs, typed, calls,
                   reported, fs0>>

Next ==
    \/ MainUsage
    \/ MainStart
    \/ ParseOutput
    \/ ParseWidth
    \/ ParseQuality
    \/ ParseUnknown
    \/ ParseDone
    \/ WidthGiven
    \/ PromptTTY
    \/ PromptNoTTY
    \/ RunFile
    \/ RunDirectoryEmpty
    \/ RunDirectory
    \/ RunNeither
    \/ LoopStep
    \/ Summary
    \/ EnvRemove

Spec == Init /\ [][Next]_vars

(***************************************************************************)
(* optimize_directory's loop as a function: the file system and the count  *)
(* of successes after the candidates were processed in the order `order`   *)
(* (lines 129-132), `crashed` when an exception ended it.                  *)
(***************************************************************************)
RECURSIVE RunBatch(_, _, _, _, _)
RunBatch(files, order, dir, width, q) ==
    IF order = <<>> THEN [fs |-> files, success_count |-> 0, crashed |-> FALSE]
    ELSE LET r == OptimizeImage(files, Head(order), dir, width, q)
         IN  IF r.raised THEN [fs |-> r.fs, success_count |-> 0, crashed |-> TRUE]
             ELSE LET rest == RunBatch(r.fs, Tail(order), dir, width, q)
                  IN  [rest EXCEPT !.success_count =
                                       rest.success_count + (IF r.ret THEN 1 ELSE 0)]

(***************************************************************************)
(* What the claims speak of.                                               *)
(***************************************************************************)
Min(a, b) == IF a <= b THEN a ELSE b

\* the <<option, value>> pairs of the command line: an option takes the
\* token after it
RECURSIVE Supplied(_)
Supplied(j) ==
    IF j >= Len(argv) THEN {}
    ELSE IF Arg(j) \in {sOutput, sWidth, sQuality} /\ j + 1 < Len(argv)
    THEN {<<Arg(j), Arg(j + 1)>>} \cup Supplied(j + 2)
    ELSE Supplied(j + 1)

NotANumber(str) == ~PyInt(str).ok

SuppliedInvalidWidth ==
    \E o \in Supplied(2) :
        o[1] = sWidth /\ (NotANumber(o[2]) \/ PyInt(o[2]).val <= 0)

SuppliedInvalidQuality ==
    \E o \in Supplied(2) :
        o[1] = sQuality
        /\ (NotANumber(o[2]) \/ PyInt(o[2]).val < 0 \/ PyInt(o[2]).val > 100)

\* a line was typed at the prompt that is neither empty nor a positive number
TypedInvalidWidth ==
    /\ typed # None
    /\ typed[1] # EndOfFile
    /\ Strip(typed[1]) # <<>>
    /\ (NotANumber(typed[1]) \/ PyInt(typed[1]).val <= 0)

PositionalGiven == Len(argv) >= 2

\* a batch over the directory began, and the process has ended
BatchEnded == pc = "exit" /\ {"found", "no_images_found"} \cap msgs # {}

Successes == {k \in DOMAIN calls : calls[k].ret}

(***************************************************************************)
(* C1: every successful optimize_image call with original width W >= 1    *)
(* and max_width >= 1 hands the encoder an image of width min(W,           *)
(* max_width): never wider than max_width, and with both width and height  *)
(* unchanged when W <= max_width.                                          *)
(***************************************************************************)
C1_WidthIsMin ==
    \A k \in DOMAIN calls :
        LET c == calls[k]
        IN  (c.ret /\ c.src.w >= 1 /\ c.max_width >= 1) =>
                /\ c.enc.w = Min(c.src.w, c.max_width)
                /\ c.enc.w <= c.max_width
                /\ (c.src.w <= c.max_width =>
                        c.enc.w = c.src.w /\ c.enc.h = c.src.h)

\* one run in which a wider image was narrowed and a narrower one left alone
C1_Witness ==
    \E j, k \in DOMAIN calls :
        /\ calls[j].ret /\ calls[j].src.w > calls[j].max_width
        /\ calls[j].enc.w = calls[j].max_width
        /\ calls[k].ret /\ calls[k].src.w < calls[k].max_width
        /\ calls[k].enc.w = calls[k].src.w /\ calls[k].enc.h = calls[k].src.h

(***************************************************************************)
(* C7: a call of optimize_image on a path that does not exist returns      *)
(* failure, says so, and leaves the file system as it was (no output       *)
(* directory made, nothing written); main given a positional path that is  *)
(* neither a file nor a directory calls no transform, changes nothing and   *)
(* exits with a nonzero status.                                            *)
(***************************************************************************)
C7_MissingInputNoEffect ==
    /\ \A k \in DOMAIN calls :
          ~calls[k].existed =>
              /\ ~calls[k].ret /\ ~calls[k].raised
              /\ ~calls[k].changed /\ calls[k].out = None
              /\ "file_not_found" \in msgs
    /\ (PositionalGiven /\ ~IsFile(fs0, argv[2]) /\ ~IsDir(fs0, argv[2])) =>
          /\ calls = <<>>
          /\ fs = fs0
          /\ pc = "exit" => exit_status = Some(1)

\* the first call of a batch found its file gone, with an output directory
\* asked for that is still not there
C7_Witness ==
    /\ calls # <<>>
    /\ ~calls[1].existed
    /\ calls[1].output_dir = sOut
    /\ ~Exists(fs, sOut)

(***************************************************************************)
(* C8 as stated: whenever the user supplies an invalid width (through      *)
(* --width or at the prompt) or an invalid quality, no transform is called *)
(* and the process exits with a nonzero status.                            *)
(***************************************************************************)
C8_InvalidParameterFatal ==
    (SuppliedInvalidWidth \/ SuppliedInvalidQuality \/ TypedInvalidWidth) =>
        /\ calls = <<>>
        /\ pc = "exit" => exit_status = Some(1)

(***************************************************************************)
(* C8 as amended: an invalid --width or --quality value is fatal (no       *)
(* transform is called, the process exits nonzero with a message); an      *)
(* invalid line at the prompt is not: it is reported and the default width *)
(* 300 is used; every transform called from main has max_width > 0 and     *)
(* 0 <= quality <= 100.                                                    *)
(***************************************************************************)
C8_InvalidOptionFatal ==
    /\ (SuppliedInvalidWidth \/ SuppliedInvalidQuality) =>
          /\ calls = <<>>
          /\ pc = "exit" =>
                /\ exit_status = Some(1)
                /\ {"invalid_width", "invalid_quality"} \cap msgs # {}
    /\ TypedInvalidWidth =>
          /\ pc # "width"
          /\ max_width = Some(DefaultWidth)
          /\ "invalid_input_using_default" \in msgs
          /\ (pc = "exit" /\ exit_status # Some(0)) =>
                {"not_a_file_or_directory", "traceback"} \cap msgs # {}
    /\ \A k \in DOMAIN calls :
          /\ calls[k].max_width > 0
          /\ 0 <= calls[k].quality /\ calls[k].quality <= 100

\* an invalid --quality value has ended the process
C8_Witness ==
    /\ SuppliedInvalidQuality /\ ~SuppliedInvalidWidth
    /\ pc = "exit" /\ exit_status = Some(1)
    /\ "invalid_quality" \in msgs

(***************************************************************************)
(* C2: for every image with original width W > max_width (any height      *)
(* H >= 1, any max_width >= 1) optimize_image succeeds, with output width  *)
(* max_width and output height floor(H * max_width / W), and that height   *)
(* is at least 1.  It is stated here for the images whose claimed height   *)
(* floor(H * max_width / W) is at least 1, and for the calls that did not  *)
(* fail writing their output.                                              *)
(***************************************************************************)
C2_DownscaleExact ==
    \A k \in DOMAIN calls :
        LET c == calls[k]
        IN  (/\ c.src # NoImage
             /\ c.src.w > c.max_width /\ c.src.h >= 1 /\ c.max_width >= 1
             /\ (c.src.h * c.max_width) \div c.src.w >= 1
             /\ c.fail # "write") =>
                /\ c.ret
                /\ c.enc.w = c.max_width
                /\ c.enc.h = (c.src.h * c.max_width) \div c.src.w
                /\ c.enc.h >= 1

(***************************************************************************)
(* C3: no failure of one file aborts the batch: once a batch over a        *)
(* non-empty listing has ended, optimize_image was called exactly once for *)
(* every candidate, in the listing's order, the final summary was printed, *)
(* and the success count it reports is the number of calls that returned   *)
(* success.                                                                *)
(***************************************************************************)
C3_BatchNeverAborts ==
    (pc = "exit" /\ "found" \in msgs) =>
        /\ Len(calls) = Len(images)
        /\ \A k \in DOMAIN calls : calls[k].path = images[k]
        /\ "complete" \in msgs
        /\ reported = <<Cardinality(Successes), Len(images)>>

(***************************************************************************)
(* C4: a batch run over a directory holding N regular files whose          *)
(* extension, compared case-insensitively, is one of png, jpg, jpeg, gif,  *)
(* bmp, tiff, webp and M other entries calls the transform on exactly      *)
(* those N files and on none of the M; when N = 0 it reports that no       *)
(* images were found and returns without calling the transform or making   *)
(* the output directory.                                                   *)
(***************************************************************************)
Extensions ==
    { <<"p", "n", "g">>, <<"j", "p", "g">>, <<"j", "p", "e", "g">>,
      <<"g", "i", "f">>, <<"b", "m", "p">>, <<"t", "i", "f", "f">>,
      <<"w", "e", "b", "p">> }

\* the name is something, a dot, and one of the extensions in any case
HasExtension(name) ==
    \E x \in Extensions :
        /\ Len(name) > Len(x) + 1
        /\ Lower(SubSeq(name, Len(name) - Len(x), Len(name))) = <<".">> \o x

SupportedFiles ==
    {f \in DOMAIN fs0 :
        /\ f # Dot /\ f # argv[2] /\ PathParent(f) = argv[2]
        /\ fs0[f].kind = "file"
        /\ HasExtension(PathName(f))}

C4_ExactlyTheSupported ==
    BatchEnded =>
        /\ {calls[k].path : k \in DOMAIN calls} = SupportedFiles
        /\ Len(calls) = Cardinality(SupportedFiles)
        /\ SupportedFiles = {} =>
              /\ "no_images_found" \in msgs
              /\ calls = <<>>
              /\ fs = fs0

(***************************************************************************)
(* C5: for every source mode with an alpha channel or a palette (RGBA,     *)
(* LA, P) the image handed to the encoder is the source flattened onto     *)
(* white: a fully transparent pixel has become white (255, 255, 255), a    *)
(* fully opaque one has kept its colour; and for every source mode the     *)
(* image handed to the encoder is three-channel RGB.                       *)
(***************************************************************************)
SourceAlpha(img) ==
    IF img.mode = "P" THEN img.trns[img.px[1]] ELSE img.px[Len(img.px)]

SourceColour(img) ==
    IF img.mode = "P" THEN img.palette[img.px[1]]
    ELSE IF img.mode = "LA" THEN <<img.px[1], img.px[1], img.px[1]>>
    ELSE SubSeq(img.px, 1, 3)

C5_FlattenedOntoWhite ==
    \A k \in DOMAIN calls :
        LET c == calls[k]
        IN  c.enc # NoImage =>
                /\ c.enc.mode = "RGB" /\ Len(c.enc.px) = 3
                /\ c.src.mode \in {"RGBA", "LA", "P"} =>
                      /\ SourceAlpha(c.src) = 0 => c.enc.px = White
                      /\ SourceAlpha(c.src) = 255 => c.enc.px = SourceColour(c.src)

(***************************************************************************)
(* C6: when main is given a positional path that is an existing file or    *)
(* directory and valid options (and a width was settled on), the process   *)
(* exits with status 0 whatever the outcome of each file: a failed single  *)
(* file, a batch in which some or all files fail, an empty directory.      *)
(***************************************************************************)
C6_ExitsZero ==
    (/\ pc = "exit"
     /\ PositionalGiven
     /\ IsFile(fs0, argv[2]) \/ IsDir(fs0, argv[2])
     /\ ~SuppliedInvalidWidth /\ ~SuppliedInvalidQuality
     /\ typed # Some(EndOfFile)) =>
        exit_status = Some(0)

(***************************************************************************)
(* C9: the order in which optimize_directory processes the candidates does *)
(* not affect the result: whatever the directory holds, every order of the *)
(* same candidates ends with the same files, each derived from the same    *)
(* source, and the same success count.  (Runs another process interfered   *)
(* with are left aside.)                                                   *)
(***************************************************************************)
C9_OrderIrrelevant ==
    (pc = "exit" /\ reported # None /\ ~interfered) =>
        \A o \in Orders(Range(images)) :
            LET r == RunBatch(fs0, o, output_dir, max_width[1], quality)
            IN  /\ ~r.crashed
                /\ r.fs = fs
                /\ r.success_count = success_count

(***************************************************************************)
(* C10: optimize_directory fixes its candidate list before it processes    *)
(* any file: the files transformed in a run are exactly the supported      *)
(* files present when the directory was listed, the total reported is the  *)
(* size of that listing, and no .webp output written during the run is     *)
(* itself picked up as an input in that run.                               *)
(***************************************************************************)
C10_ListingFixed ==
    /\ (pc \in {"loop", "exit"} /\ "found" \in msgs) =>
          /\ Range(images) = SupportedFiles
          /\ \A k \in DOMAIN calls : calls[k].path = images[k]
    /\ reported # None =>
          /\ reported[2] = Cardinality(SupportedFiles)
          /\ {calls[k].path : k \in DOMAIN calls} = SupportedFiles
    /\ \A j, k \in DOMAIN calls : j < k => calls[j].out # calls[k].path

=============================================================================
